---------------------------- MODULE Spec2Model ----------------------------
(***************************************************************************)
(* A model of the ETL pipeline of Sheet2Neon (src/src/etl/etl_pipeline.py) *)
(* and of the way its entry points drive it (the __main__ block of the     *)
(* module and run() of src/run_etl.py): one ETLPipeline object, run_etl    *)
(* invoked on it several times, a CSV source and a PostgreSQL sink.        *)
(*                                                                         *)
(* A DataFrame is a sequence of rows, a row a record of cells, a cell a    *)
(* tagged value: a string (a sequence of one-character strings), a number, *)
(* NaN (what pandas reads for an empty CSV field), None, or Absent (a key   *)
(* a dict does not have).  The pandas, Python and psycopg2/PostgreSQL      *)
(* operations the pipeline calls are modelled by what they do to these     *)
(* values.  Writing logs/etl_log.json is taken to succeed.                 *)
(***************************************************************************)
EXTENDS Integers, Sequences, FiniteSets, TLC

\* ------------------------------------------------------------------ bounds
\* The longest source batch (rows of one CSV file) the model reads.
MaxRows == 2
\* The longest string in a record a validator or a normalisation is tried on.
MaxStrLen == 2

\* --------------------------------------------------------------- constants
\* The invocations of run_etl the entry points make on one pipeline object:
\* one for the students file, then one for the courses file.  The model lets
\* each of them name any entity type and any file.
RunsPerPipeline == 2

\* ------------------------------------------------------------------- cells
Str(s) == [t |-> "str", s |-> s, n |-> 0]
Num(n) == [t |-> "num", s |-> <<>>, n |-> n]
NaN    == [t |-> "nan", s |-> <<>>, n |-> 0]
None   == [t |-> "none", s |-> <<>>, n |-> 0]
Absent == [t |-> "absent", s |-> <<>>, n |-> 0]

LowerAlpha == << "a", "b", "c", "d", "e", "k", "l", "m", "n", "o", "p", "u", "w", "x" >>
UpperAlpha == << "A", "B", "C", "D", "E", "K", "L", "M", "N", "O", "P", "U", "W", "X" >>
Digits     == << "0", "1", "2", "3", "4", "5", "6", "7", "8", "9" >>

IsUpperCh(c) == \E i \in 1..Len(UpperAlpha) : UpperAlpha[i] = c
IsLowerCh(c) == \E i \in 1..Len(LowerAlpha) : LowerAlpha[i] = c
IsAlphaCh(c) == IsUpperCh(c) \/ IsLowerCh(c)
IsSpaceCh(c) == c = " "

\* str.lower() / str.upper() on one character.
LowerCh(c) ==
    IF IsUpperCh(c)
    THEN LowerAlpha[CHOOSE i \in 1..Len(UpperAlpha) : UpperAlpha[i] = c]
    ELSE c
UpperCh(c) ==
    IF IsLowerCh(c)
    THEN UpperAlpha[CHOOSE i \in 1..Len(LowerAlpha) : LowerAlpha[i] = c]
    ELSE c

\* A lower() that turns the case of every letter round.
StrLower_SwapCase(s) ==
    [i \in 1..Len(s) |-> IF IsUpperCh(s[i]) THEN LowerCh(s[i]) ELSE UpperCh(s[i])]

StrLower(s) == [i \in 1..Len(s) |-> LowerCh(s[i])]
StrUpper(s) == [i \in 1..Len(s) |-> UpperCh(s[i])]

\* str.title(): a letter that follows a non-letter (or starts the string) is
\* upper-cased, every other letter lower-cased.
StrTitle(s) ==
    [i \in 1..Len(s) |->
        IF i = 1 \/ ~IsAlphaCh(s[i - 1]) THEN UpperCh(s[i]) ELSE LowerCh(s[i])]

\* str.strip(): leading and trailing whitespace removed.
RECURSIVE LStrip(_)
LStrip(s) == IF s # <<>> /\ IsSpaceCh(Head(s)) THEN LStrip(Tail(s)) ELSE s
RECURSIVE RStrip(_)
RStrip(s) ==
    IF s # <<>> /\ IsSpaceCh(s[Len(s)]) THEN RStrip(SubSeq(s, 1, Len(s) - 1)) ELSE s
StrStrip(s) == RStrip(LStrip(s))

\* Python's `x in s` for a one-character x.
Contains(s, c) == \E i \in 1..Len(s) : s[i] = c

\* str(n) of an integer: its decimal digits.
RECURSIVE NatStr(_)
NatStr(n) == IF n < 10 THEN << Digits[n + 1] >> ELSE NatStr(n \div 10) \o << Digits[(n % 10) + 1] >>
IntStr(n) == IF n < 0 THEN << "-" >> \o NatStr(0 - n) ELSE NatStr(n)

\* str(x) of a cell: str(float('nan')) is 'nan', str(None) is 'None'.
PyStr(c) ==
    CASE c.t = "str" -> c.s
      [] c.t = "num" -> IntStr(c.n)
      [] c.t = "nan" -> << "n", "a", "n" >>
      [] OTHER       -> << "N", "o", "n", "e" >>

\* Python truthiness, as `not row.get(k)` tests it: the empty string, 0 and
\* None are false; NaN (a non-zero float) is true.
Truthy(c) ==
    CASE c.t = "str" -> c.s # <<>>
      [] c.t = "num" -> c.n # 0
      [] c.t = "nan" -> TRUE
      [] OTHER       -> FALSE

\* A string of decimal digits, and the number it writes.
IsNumeral(s) == s # <<>> /\ \A i \in 1..Len(s) : \E d \in 1..Len(Digits) : Digits[d] = s[i]
DigitVal(c) == (CHOOSE d \in 1..Len(Digits) : Digits[d] = c) - 1
RECURSIVE ParseNat(_)
ParseNat(s) ==
    IF s = <<>> THEN 0 ELSE 10 * ParseNat(SubSeq(s, 1, Len(s) - 1)) + DigitVal(s[Len(s)])

\* int(x): the integer, or the exception int() raises.  int('abc') and
\* int(float('nan')) raise ValueError; int(None) raises TypeError.
PyInt(c) ==
    CASE c.t = "num" -> [ok |-> TRUE, n |-> c.n, exc |-> "none"]
      [] c.t = "str" /\ IsNumeral(StrStrip(c.s)) ->
            [ok |-> TRUE, n |-> ParseNat(StrStrip(c.s)), exc |-> "none"]
      [] c.t = "none" -> [ok |-> FALSE, n |-> 0, exc |-> "TypeError"]
      [] OTHER -> [ok |-> FALSE, n |-> 0, exc |-> "ValueError"]

\* dict.get(k): the value, None for a key the dict does not have.
DictGet(c) == IF c.t = "absent" THEN None ELSE c
\* dict.get(k, 0).
DictGet0(c) == IF c.t = "absent" THEN Num(0) ELSE c

\* ------------------------------------------------------------- validation
\* The reasons the validators report.  The source interpolates the offending
\* value into the year and credits reasons; the model keeps the reason's kind.
MissingName      == "Missing name"
InvalidEmail     == "Invalid email format"
InvalidYear      == "Invalid year (must be 1-4)"
YearNotNumber    == "Year is not a number"
MissingDept      == "Missing department_id"
MissingCode      == "Missing course code"
MissingCourseName == "Missing course name"
InvalidCredits   == "Invalid credits (must be 1-4)"
CreditsNotNumber == "Credits is not a number"

ValidRange == {1, 2, 3, 4}

\* `not row.get(k) or str(row[k]).strip() == ''`
BlankField(c) == ~Truthy(DictGet(c)) \/ StrStrip(PyStr(c)) = <<>>

\* The try/except ValueError around int(): the reasons it adds, and the
\* exception that escapes it (only ValueError is caught).
IntRangeCheck(c, invalid, notNumber) ==
    LET r == PyInt(DictGet0(c)) IN
    CASE r.ok /\ r.n \in ValidRange -> [errors |-> <<>>, exc |-> "none"]
      [] r.ok                       -> [errors |-> << invalid >>, exc |-> "none"]
      [] r.exc = "ValueError"       -> [errors |-> << notNumber >>, exc |-> "none"]
      [] OTHER                      -> [errors |-> <<>>, exc |-> r.exc]

\* validate_student_data(row): (len(errors) == 0, errors), or the exception
\* that escapes it.
ValidateStudent(row) ==
    LET e1 == IF BlankField(row.name) THEN << MissingName >> ELSE <<>>
        e2 == IF ~Truthy(DictGet(row.email)) \/ ~Contains(PyStr(row.email), "@")
              THEN << InvalidEmail >> ELSE <<>>
        yr == IntRangeCheck(row.year, InvalidYear, YearNotNumber)
        e4 == IF ~Truthy(DictGet(row.department_id)) THEN << MissingDept >> ELSE <<>>
        errors == e1 \o e2 \o yr.errors \o e4
    IN  IF yr.exc # "none"
        THEN [is_valid |-> FALSE, errors |-> <<>>, exc |-> yr.exc]
        ELSE [is_valid |-> Len(errors) = 0, errors |-> errors, exc |-> "none"]

\* validate_course_data(row).
ValidateCourse(row) ==
    LET e1 == IF BlankField(row.code) THEN << MissingCode >> ELSE <<>>
        e2 == IF BlankField(row.name) THEN << MissingCourseName >> ELSE <<>>
        cr == IntRangeCheck(row.credits, InvalidCredits, CreditsNotNumber)
        errors == e1 \o e2 \o cr.errors
    IN  IF cr.exc # "none"
        THEN [is_valid |-> FALSE, errors |-> <<>>, exc |-> cr.exc]
        ELSE [is_valid |-> Len(errors) = 0, errors |-> errors, exc |-> "none"]

\* --------------------------------------------------------------- DataFrame
\* A column of a frame: the cells of field f, in row order.
Column(df, f) == [i \in 1..Len(df) |-> df[i][f]]

\* Two cells are the same key for DataFrame.drop_duplicates: equal values,
\* NaN counting as equal to NaN.
SameKey(a, b) == a = b

\* df.drop_duplicates(subset=[f], keep='first'): the rows whose f cell did not
\* occur in an earlier row, in order.
RECURSIVE DropDuplicates(_, _)
DropDuplicates(df, f) ==
    IF df = <<>> THEN <<>>
    ELSE LET init == SubSeq(df, 1, Len(df) - 1)
             last == df[Len(df)]
         IN  IF \E i \in 1..Len(init) : SameKey(init[i][f], last[f])
             THEN DropDuplicates(init, f)
             ELSE Append(DropDuplicates(init, f), last)

\* Series.fillna(v) on one cell.
FillNa(c, v) == IF c.t = "nan" THEN v ELSE c

\* The .str accessor exists only on a column of object dtype: pandas reads a
\* column with no string in it (all NaN, or all numbers) as float64 or int64
\* and `.str` raises AttributeError on it.  A frame with no rows has object
\* columns.
HasStrAccessor(col) == col = <<>> \/ \E i \in 1..Len(col) : col[i].t = "str"

\* Series.str.<op>() on one cell: the op on a string, NaN on anything else.
StrLowerStrip(c) == IF c.t = "str" THEN Str(StrStrip(StrLower(c.s))) ELSE NaN
StrUpperStrip(c) == IF c.t = "str" THEN Str(StrStrip(StrUpper(c.s))) ELSE NaN
StrTitleStrip(c) == IF c.t = "str" THEN Str(StrStrip(StrTitle(c.s))) ELSE NaN

\* Series.astype(int) raises ValueError when a cell is NaN or is a string
\* that is no numeral.
CanAsInt(col) == \A i \in 1..Len(col) : col[i].t # "nan" /\ PyInt(col[i]).ok
AsInt(c) == Num(PyInt(c).n)

Placeholder_Name  == Str(<< "U", "n", "k", "n", "o", "w", "n" >>)
Placeholder_Email == Str(<< "u", "n", "k", "n", "o", "w", "n", "@", "e", "x", "a", "m", "p", "l", "e", ".", "c", "o", "m" >>)
Placeholder_Year  == Num(1)

\* The validation loop `for idx, row in df.iterrows()`: res[i] is the
\* validator's result for row i.  The rows kept (valid_rows), and the reasons
\* of the rows rejected, in row order.
RECURSIVE ValidRows(_, _)
ValidRows(df, res) ==
    IF df = <<>> THEN <<>>
    ELSE IF Head(res).is_valid
         THEN << Head(df) >> \o ValidRows(Tail(df), Tail(res))
         ELSE ValidRows(Tail(df), Tail(res))
RECURSIVE RejectReasons(_)
RejectReasons(res) ==
    IF res = <<>> THEN <<>>
    ELSE (IF Head(res).is_valid THEN <<>> ELSE Head(res).errors) \o RejectReasons(Tail(res))

\* The key on which transform_students removes duplicates (step 1), and the
\* frame that step hands to steps 2 to 4.
StudentDedup(df) == DropDuplicates(df, "email")

\* Steps 2 and 3 of transform_students on one row (fillna, then the string
\* normalisations and the year's type).
NormalizeStudentRow(r) ==
    [name          |-> StrTitleStrip(FillNa(r.name, Placeholder_Name)),
     email         |-> StrLowerStrip(FillNa(r.email, Placeholder_Email)),
     year          |-> AsInt(FillNa(r.year, Placeholder_Year)),
     department_id |-> r.department_id]

\* Whether steps 2 and 3 raise on the frame, and what they raise.
StudentNormalizeExc(df) ==
    CASE ~HasStrAccessor([i \in 1..Len(df) |-> FillNa(df[i].email, Placeholder_Email)])
            -> "AttributeError"
      [] ~HasStrAccessor([i \in 1..Len(df) |-> FillNa(df[i].name, Placeholder_Name)])
            -> "AttributeError"
      [] ~CanAsInt([i \in 1..Len(df) |-> FillNa(df[i].year, Placeholder_Year)])
            -> "ValueError"
      [] OTHER -> "none"

\* The errors the validation loop of transform_students adds to
\* log_data['errors']: errors.extend(reasons) for each rejected row.
StudentLoggedReasons(res) == RejectReasons(res)

\* transform_students(df): the exception that escapes it, or the valid frame
\* and the reasons logged.
TransformStudents(df) ==
    LET d1  == StudentDedup(df)
        exc == StudentNormalizeExc(d1)
        d3  == [i \in 1..Len(d1) |-> NormalizeStudentRow(d1[i])]
        res == [i \in 1..Len(d3) |-> ValidateStudent(d3[i])]
    IN  IF exc # "none"
        THEN [exc |-> exc, rows |-> <<>>, logged |-> <<>>, reasons |-> <<>>]
        ELSE [exc |-> "none",
              rows |-> ValidRows(d3, res),
              logged |-> StudentLoggedReasons(res),
              reasons |-> RejectReasons(res)]

CourseDedup(df) == DropDuplicates(df, "code")

NormalizeCourseRow(r) ==
    [code          |-> StrUpperStrip(r.code),
     name          |-> StrTitleStrip(r.name),
     department_id |-> r.department_id,
     credits       |-> AsInt(r.credits)]

CourseNormalizeExc(df) ==
    CASE ~HasStrAccessor(Column(df, "code")) -> "AttributeError"
      [] ~HasStrAccessor(Column(df, "name")) -> "AttributeError"
      [] ~CanAsInt(Column(df, "credits"))    -> "ValueError"
      [] OTHER -> "none"

\* The validation loop of transform_courses only warns about a rejected row:
\* it adds nothing to log_data['errors'].
CourseLoggedReasons(res) == <<>>

\* transform_courses(df).
TransformCourses(df) ==
    LET d1  == CourseDedup(df)
        exc == CourseNormalizeExc(d1)
        d3  == [i \in 1..Len(d1) |-> NormalizeCourseRow(d1[i])]
        res == [i \in 1..Len(d3) |-> ValidateCourse(d3[i])]
    IN  IF exc # "none"
        THEN [exc |-> exc, rows |-> <<>>, logged |-> <<>>, reasons |-> <<>>]
        ELSE [exc |-> "none",
              rows |-> ValidRows(d3, res),
              logged |-> CourseLoggedReasons(res),
              reasons |-> RejectReasons(res)]

\* --------------------------------------------------------------------- sink
\* The rows of the department table the student and course tables refer to.
Departments == {1}

\* The natural key of a row of each table: student.email and course.code are
\* the UNIQUE columns the ON CONFLICT clauses name.
KeyOf(entity, row) == IF entity = "students" THEN row.email ELSE row.code
Keys(entity, table) == {KeyOf(entity, r) : r \in table}

\* psycopg2 sends a float NaN as 'NaN'::float, which PostgreSQL refuses to
\* store in the integer column department_id.
IntegerColumnOk(row) == row.department_id.t = "num"
\* The FOREIGN KEY of department_id.
ForeignKeyOk(row) == row.department_id.n \in Departments

\* A database session (one psycopg2 connection, autocommit off): the state
\* of its transaction and the rows inserted in it and not yet committed.
NewSession == [txn |-> "idle", pending |-> {}]

\* cursor.execute(INSERT ... ON CONFLICT (key) DO NOTHING) of one row, in
\* session s over the committed rows `table`: the exception it raises or
\* "none", cursor.rowcount, and the session after it.  A statement that fails
\* aborts the transaction, and PostgreSQL refuses every later statement of an
\* aborted transaction until it is rolled back (src/verify_queries.py resets
\* it with conn.rollback(); the load loops do not).
ExecuteInsert(entity, s, table, row) ==
    CASE s.txn = "aborted" ->
            [exc |-> "InFailedSqlTransaction", rowcount |-> 0, s |-> s]
      [] ~IntegerColumnOk(row) ->
            [exc |-> "NumericValueOutOfRange", rowcount |-> 0,
             s |-> [s EXCEPT !.txn = "aborted"]]
      [] KeyOf(entity, row) \in Keys(entity, table \cup s.pending) ->
            [exc |-> "none", rowcount |-> 0, s |-> [s EXCEPT !.txn = "active"]]
      [] ~ForeignKeyOk(row) ->
            [exc |-> "ForeignKeyViolation", rowcount |-> 0,
             s |-> [s EXCEPT !.txn = "aborted"]]
      [] OTHER ->
            [exc |-> "none", rowcount |-> 1,
             s |-> [txn |-> "active", pending |-> s.pending \cup {row}]]

\* The loop of load_students / load_courses over the frame: each execute in
\* its own try/except, which appends str(e) to log_data['errors'] and goes on.
\* inserted: the sum of the rowcounts; raised: per row, what its execute raised.
RECURSIVE LoadLoop(_, _, _, _)
LoadLoop(entity, df, s, table) ==
    IF df = <<>>
    THEN [inserted |-> 0, errors |-> <<>>, raised |-> <<>>, s |-> s]
    ELSE LET r    == ExecuteInsert(entity, s, table, Head(df))
             rest == LoadLoop(entity, Tail(df), r.s, table)
         IN  [inserted |-> (IF r.exc = "none" THEN r.rowcount ELSE 0) + rest.inserted,
              errors   |-> (IF r.exc = "none" THEN <<>> ELSE << r.exc >>) \o rest.errors,
              raised   |-> << r.exc >> \o rest.raised,
              s        |-> rest.s]

\* conn.commit(): COMMIT of an aborted transaction is answered by ROLLBACK and
\* raises nothing; otherwise the pending rows become committed rows.
CommitTable(s, table) == IF s.txn = "aborted" THEN table ELSE table \cup s.pending

\* ------------------------------------------------------------------- inputs
\* The rows a source file may hold.  Students: a good row; a row whose email
\* differs from it by case and trailing space only; a row with no
\* department_id; a row whose year is no number; a row with a blank name and
\* an out-of-range year; a good row of a department that does not exist; a row
\* with no name, email or year.
StudentRowsIn ==
    { [name |-> Str(<< "a", "b" >>), email |-> Str(<< "a", "@", "x" >>),
       year |-> Num(2), department_id |-> Num(1)],
      [name |-> Str(<< "A", "b" >>), email |-> Str(<< "A", "@", "x", " " >>),
       year |-> Num(3), department_id |-> Num(1)],
      [name |-> Str(<< "b" >>), email |-> Str(<< "b", "@", "x" >>),
       year |-> Num(1), department_id |-> NaN],
      [name |-> Str(<< "c" >>), email |-> Str(<< "c", "@", "x" >>),
       year |-> Str(<< "x" >>), department_id |-> Num(1)],
      [name |-> Str(<< " " >>), email |-> Str(<< "d", "@", "x" >>),
       year |-> Num(5), department_id |-> Num(1)],
      [name |-> Str(<< "e" >>), email |-> Str(<< "e", "@", "x" >>),
       year |-> Num(4), department_id |-> Num(9)],
      [name |-> NaN, email |-> NaN, year |-> NaN, department_id |-> Num(1)] }

\* Courses: a good row; a row whose code differs from it by case and trailing
\* space only; a row with an empty code; a row with no code; a row with
\* out-of-range credits; a row whose credits is no number; a good row of a
\* department that does not exist.
CourseRowsIn ==
    { [code |-> Str(<< "c", "1" >>), name |-> Str(<< "a", " ", "b" >>),
       department_id |-> Num(1), credits |-> Num(3)],
      [code |-> Str(<< "C", "1", " " >>), name |-> Str(<< "a" >>),
       department_id |-> Num(1), credits |-> Num(4)],
      [code |-> Str(<<>>), name |-> Str(<< "b" >>),
       department_id |-> Num(1), credits |-> Num(4)],
      [code |-> NaN, name |-> Str(<< "b" >>),
       department_id |-> Num(1), credits |-> Num(2)],
      [code |-> Str(<< "d", "1" >>), name |-> Str(<< "d" >>),
       department_id |-> Num(1), credits |-> Num(7)],
      [code |-> Str(<< "e", "1" >>), name |-> Str(<< "e" >>),
       department_id |-> Num(1), credits |-> Str(<< "x" >>)],
      [code |-> Str(<< "k", "1" >>), name |-> Str(<< "k" >>),
       department_id |-> Num(9), credits |-> Num(1)] }

\* The frames of at most MaxRows rows over a set of rows.
Batches(S) == UNION { [1..n -> S] : n \in 0..MaxRows }

EntityTypes == {"students", "courses", "teachers"}

\* The files run_etl may be pointed at for an entity type: a students file
\* for 'students', a courses file for anything else.
SourceFrames(entity) ==
    IF entity = "students" THEN Batches(StudentRowsIn) ELSE Batches(CourseRowsIn)

\* The characters of the strings a validator or a normalisation is tried on:
\* a lower-case letter, an upper-case letter, white space and the at sign.
ProbeAlphabet == {"a", "B", " ", "@"}
ProbeStrings == UNION { [1..n -> ProbeAlphabet] : n \in 0..MaxStrLen }

\* The values a key of a record handed to a validator may have: a string,
\* NaN, None, or no such key; for year and credits also numbers and numerals.
TextCells == { Str(s) : s \in ProbeStrings } \cup {NaN, None, Absent}
NumberCells ==
    { Num(n) : n \in 0..5 } \cup
    { NaN, None, Absent, Str(<<>>), Str(<< "a" >>), Str(<< "3" >>), Str(<< "7" >>) }
DeptCells == { Num(0), Num(1), NaN, None, Absent }
StudentRecords ==
    [name : TextCells, email : TextCells, year : NumberCells, department_id : DeptCells]
CourseRecords ==
    [code : TextCells, name : TextCells, department_id : {Num(1)}, credits : NumberCells]

\* The cells pandas.read_csv gives a frame: a non-empty string or NaN in a
\* text column; a number, NaN or a string that is no numeral in a number
\* column.  The frames a normalisation is tried on: every frame of one such
\* row, and the batches of the source rows above.
FrameTextCells == { Str(s) : s \in ProbeStrings \ { <<>> } } \cup {NaN}
FrameNumberCells == { Num(n) : n \in 0..5 } \cup { NaN, Str(<< "a" >>) }
StudentFrames ==
    { << r >> : r \in [name : FrameTextCells, email : FrameTextCells,
                        year : FrameNumberCells, department_id : {Num(1), NaN}] }
    \cup Batches(StudentRowsIn)
CourseFrames ==
    { << r >> : r \in [code : FrameTextCells, name : FrameTextCells,
                        department_id : {Num(1)}, credits : FrameNumberCells] }
    \cup Batches(CourseRowsIn)

\* -------------------------------------------------------------------- state
VARIABLES
    pc,              \* where run_etl is: "idle" between invocations
    runs,            \* invocations of run_etl that have returned
    entity_type,     \* the argument of the current invocation
    conn,            \* self.conn / self.cursor: "none", "open" or "closed"
    session,         \* the transaction of the open connection
    log_data,        \* self.log_data
    df_raw,          \* the frame extract_from_csv returned
    df_transformed,  \* the frame the transform returned
    student,         \* the committed rows of table student
    course,          \* the committed rows of table course
    log_file,        \* logs/etl_log.json: <<>> or << its content >>
    events,          \* what the current invocation has done so far, in order
    occurred,        \* every error that happened in the current invocation
    load_raised,     \* per row of df_transformed, what its insert raised
    keys_at_load,    \* the keys of the target table when the load began
    prev_load,       \* the last frame a load went through, and its entity
    reloaded,        \* the load just made went over the frame of prev_load
    source_absent,   \* the current invocation's source file was missing
    escaped,         \* an exception left the current invocation of run_etl
    db_at_start,     \* the committed rows of both tables when run_etl was called
    probe            \* the value a validator or a transform is applied to

vars == << pc, runs, entity_type, conn, session, log_data, df_raw, df_transformed,
           student, course, log_file, events, occurred, load_raised, keys_at_load,
           prev_load, reloaded, source_absent, escaped, db_at_start, probe >>

db == << student, course >>
ghost_load == << load_raised, keys_at_load, prev_load, reloaded >>
pipeline == << pc, runs, entity_type, conn, session, log_data, df_raw, df_transformed,
               student, course, log_file, events, occurred, load_raised, keys_at_load,
               prev_load, reloaded, source_absent, escaped, db_at_start >>

\* A call of a validator or of a transform's normalisation on its own, as the
\* tests of src/tests/test_etl.py make them: op says how far it went, df is
\* the argument (a one-record frame for a validator), res the validator's
\* result, once the normalised frame, twice the normalisation of `once`.
ProbeOf(op, entity, df) ==
    [op |-> op, entity |-> entity, df |-> df, res |-> <<>>, once |-> <<>>,
     twice |-> [exc |-> "none", rows |-> <<>>]]
NoProbe == ProbeOf("none", "none", <<>>)

\* ETLPipeline.__init__: self.log_data.
InitialLog ==
    [status |-> "pending", records_extracted |-> 0, records_transformed |-> 0,
     records_loaded |-> 0, errors |-> <<>>]

PipelineInit ==
    /\ pc = "idle"
    /\ runs = 0
    /\ entity_type = "students"
    /\ conn = "none"
    /\ session = NewSession
    /\ log_data = InitialLog
    /\ df_raw = <<>>
    /\ df_transformed = <<>>
    /\ student = {}
    /\ course = {}
    /\ log_file = <<>>
    /\ events = <<>>
    /\ occurred = <<>>
    /\ load_raised = <<>>
    /\ keys_at_load = {}
    /\ prev_load = [entity |-> "none", rows |-> <<>>]
    /\ reloaded = FALSE
    /\ source_absent = FALSE
    /\ escaped = FALSE
    /\ db_at_start = << {}, {} >>

Init == PipelineInit /\ probe = NoProbe

\* what str(e) of each failure is, as far as the model tells failures apart
ConnectionFailed == "Database connection failed"
ExtractionFailed == "No such file or directory"
UnknownEntity    == "Unknown entity type"
CommitFailed     == "OperationalError"

\* ------------------------------------------------------------------ run_etl
\* run_etl(source_file, entity_type) is called on the pipeline object.
\* Nothing of self.log_data is reset: __init__ alone sets it.
Invoke(e) ==
    /\ pc = "idle"
    /\ runs < RunsPerPipeline
    /\ pc' = "connect"
    /\ entity_type' = e
    /\ df_raw' = <<>>
    /\ df_transformed' = <<>>
    /\ events' = <<>>
    /\ occurred' = <<>>
    /\ load_raised' = <<>>
    /\ keys_at_load' = {}
    /\ reloaded' = FALSE
    /\ source_absent' = FALSE
    /\ escaped' = FALSE
    /\ db_at_start' = db
    /\ UNCHANGED << runs, conn, session, log_data, db, log_file, prev_load, probe >>

\* A run_etl that goes on to the extraction whatever connect_db returned.
AfterConnect_NoRaise(ok) == "extract"

\* `if not self.connect_db(): raise Exception("Database connection failed")`:
\* where run_etl goes after connect_db returned ok.
AfterConnect(ok) == IF ok THEN "extract" ELSE "except"

\* connect_db(), and `raise Exception("Database connection failed")` when it
\* returns False.  connect_db logs its failure and records nothing in
\* log_data; self.conn keeps the connection of an earlier invocation.
ConnectDb ==
    /\ pc = "connect"
    /\ UNCHANGED << db_at_start, probe >>
    /\ \E ok \in BOOLEAN :
        IF ok
        THEN /\ conn' = "open"
             /\ session' = NewSession
             /\ events' = events \o << "connect", "connected" >>
             /\ occurred' = occurred
             /\ pc' = AfterConnect(TRUE)
        ELSE /\ events' = Append(events, "connect")
             /\ occurred' = Append(occurred, ConnectionFailed)
             /\ pc' = AfterConnect(FALSE)
             /\ UNCHANGED << conn, session >>
    /\ UNCHANGED << runs, entity_type, log_data, df_raw, df_transformed, db, log_file,
                    ghost_load, source_absent, escaped >>

\* extract_from_csv(source_file), and `raise Exception("Extraction failed")`
\* when it returns None.
Extract ==
    /\ pc = "extract"
    /\ UNCHANGED << db_at_start, probe >>
    /\ \E exists \in BOOLEAN :
        IF exists
        THEN \E rows \in SourceFrames(entity_type) :
                /\ df_raw' = rows
                /\ log_data' = [log_data EXCEPT !.records_extracted = Len(rows)]
                /\ events' = events \o << "extract", "extracted" >>
                /\ pc' = "transform"
                /\ UNCHANGED << occurred, source_absent >>
        ELSE /\ log_data' = [log_data EXCEPT !.errors = Append(@, ExtractionFailed)]
             /\ occurred' = Append(occurred, ExtractionFailed)
             /\ source_absent' = TRUE
             /\ events' = Append(events, "extract")
             /\ pc' = "except"
             /\ UNCHANGED df_raw
    /\ UNCHANGED << runs, entity_type, conn, session, df_transformed, db, log_file,
                    ghost_load, escaped >>

\* A transform step with no else branch: every entity type but 'students'
\* is transformed as courses.
KnownEntity_NoElse(e) == TRUE

\* The entity types the `if / elif` of the transform step knows.
KnownEntity(e) == e \in {"students", "courses"}

\* The transform step: transform_students or transform_courses, or
\* `raise ValueError("Unknown entity type")`.
Transform ==
    /\ pc = "transform"
    /\ UNCHANGED << db_at_start, probe >>
    /\ IF ~KnownEntity(entity_type)
       THEN /\ events' = Append(events, "unknown_entity")
            /\ occurred' = Append(occurred, UnknownEntity)
            /\ pc' = "except"
            /\ UNCHANGED << log_data, df_transformed >>
       ELSE LET r == IF entity_type = "students"
                     THEN TransformStudents(df_raw)
                     ELSE TransformCourses(df_raw)
            IN  IF r.exc # "none"
                THEN /\ occurred' = Append(occurred, r.exc)
                     /\ events' = Append(events, "transform")
                     /\ pc' = "except"
                     /\ UNCHANGED << log_data, df_transformed >>
                ELSE /\ df_transformed' = r.rows
                     /\ log_data' = [log_data EXCEPT
                                        !.errors = @ \o r.logged,
                                        !.records_transformed = Len(r.rows)]
                     /\ occurred' = occurred \o r.reasons
                     /\ events' = events \o << "transform", "transformed" >>
                     /\ pc' = "load"
    /\ UNCHANGED << runs, entity_type, conn, session, df_raw, db, log_file,
                    ghost_load, source_absent, escaped >>

\* A load that commits after every insert: the rows inserted so far are in
\* the table whatever happens to the rest of the load.
PersistedBeforeCommit_PerRow(s, table) == table \cup s.pending

\* The rows of the table before conn.commit() has returned: the inserts of the
\* loop are in the open transaction, which the load commits once, after the
\* loop, so the table holds what it held.
PersistedBeforeCommit(s, table) == table

\* The load step: load_students or load_courses: the insert loop, then
\* conn.commit(), then log_data['records_loaded'].  A commit that raises (the
\* connection was lost) leaves load through the except clause of run_etl.
Load ==
    /\ pc = "load"
    /\ UNCHANGED << db_at_start, probe >>
    /\ LET table == IF entity_type = "students" THEN student ELSE course
           L     == LoadLoop(entity_type, df_transformed, session, table)
       IN  /\ load_raised' = L.raised
           /\ keys_at_load' = Keys(entity_type, table)
           /\ \E committed \in BOOLEAN :
                IF committed
                THEN /\ student' = IF entity_type = "students"
                                   THEN CommitTable(L.s, table) ELSE student
                     /\ course' = IF entity_type = "students"
                                  THEN course ELSE CommitTable(L.s, table)
                     /\ session' = NewSession
                     /\ log_data' = [log_data EXCEPT
                                        !.errors = @ \o L.errors,
                                        !.records_loaded = L.inserted]
                     /\ occurred' = occurred \o L.errors
                     /\ events' = events \o << "load", "loaded" >>
                     /\ reloaded' = (prev_load = [entity |-> entity_type, rows |-> df_transformed])
                     /\ prev_load' = [entity |-> entity_type, rows |-> df_transformed]
                     /\ pc' = "success"
                ELSE /\ student' = IF entity_type = "students"
                                   THEN PersistedBeforeCommit(L.s, table) ELSE student
                     /\ course' = IF entity_type = "students"
                                  THEN course ELSE PersistedBeforeCommit(L.s, table)
                     /\ session' = L.s
                     /\ log_data' = [log_data EXCEPT !.errors = @ \o L.errors]
                     /\ occurred' = (occurred \o L.errors) \o << CommitFailed >>
                     /\ events' = Append(events, "load")
                     /\ pc' = "except"
                     /\ UNCHANGED << reloaded, prev_load >>
    /\ UNCHANGED << runs, entity_type, conn, df_raw, df_transformed, log_file,
                    source_absent, escaped >>

\* self.log_data['status'] = 'success', the last statement of the try block.
Succeed ==
    /\ pc = "success"
    /\ UNCHANGED << db_at_start, probe >>
    /\ log_data' = [log_data EXCEPT !.status = "success"]
    /\ pc' = "close"
    /\ UNCHANGED << runs, entity_type, conn, session, df_raw, df_transformed, db,
                    log_file, events, occurred, ghost_load, source_absent, escaped >>

\* An except clause that logs the failure and leaves the status as it was.
OnException_StatusKept(log) == log

\* What `except Exception as e` does to log_data: the status, and nothing of e.
OnException(log) == [log EXCEPT !.status = "failed"]

Except ==
    /\ pc = "except"
    /\ UNCHANGED << db_at_start, probe >>
    /\ log_data' = OnException(log_data)
    /\ pc' = "close"
    /\ UNCHANGED << runs, entity_type, conn, session, df_raw, df_transformed, db,
                    log_file, events, occurred, ghost_load, source_absent, escaped >>

\* finally: self.close_db().  With no cursor and no connection it calls
\* nothing.  Closing an open connection rolls back what it did not commit.
\* cursor.close() or conn.close() raising leaves run_etl at once: close_db
\* has no handler and save_log() is the statement after it.
CloseDb ==
    /\ pc = "close"
    /\ UNCHANGED << db_at_start, probe >>
    /\ \/ /\ conn = "none"
          /\ pc' = "save"
          /\ UNCHANGED << runs, conn, session, events, escaped >>
       \/ /\ conn # "none"
          /\ conn' = "closed"
          /\ session' = NewSession
          /\ events' = Append(events, "closed")
          /\ pc' = "save"
          /\ UNCHANGED << runs, escaped >>
       \/ /\ conn = "open"
          /\ escaped' = TRUE
          /\ pc' = "idle"
          /\ runs' = runs + 1
          /\ UNCHANGED << conn, session, events >>
    /\ UNCHANGED << entity_type, log_data, df_raw, df_transformed, db, log_file,
                    occurred, ghost_load, source_absent >>

\* finally: self.save_log(), and run_etl returns.
SaveLog ==
    /\ pc = "save"
    /\ UNCHANGED << db_at_start, probe >>
    /\ log_file' = << log_data >>
    /\ events' = Append(events, "saved")
    /\ pc' = "idle"
    /\ runs' = runs + 1
    /\ UNCHANGED << entity_type, conn, session, log_data, df_raw, df_transformed, db,
                    occurred, ghost_load, source_absent, escaped >>

RunStep ==
    \/ ConnectDb
    \/ Extract
    \/ Transform
    \/ Load
    \/ Succeed
    \/ Except
    \/ CloseDb
    \/ SaveLog

Next ==
    \/ \E e \in EntityTypes : Invoke(e)
    \/ RunStep

Spec == Init /\ [][Next]_vars

\* ------------------------------------------- validators and normalisations
\* Steps 2 and 3 of transform_students on a frame: the exception they raise,
\* or the frame they leave.
NormalizeStudents(df) ==
    LET exc == StudentNormalizeExc(df)
    IN  [exc |-> exc,
         rows |-> IF exc = "none"
                  THEN [i \in 1..Len(df) |-> NormalizeStudentRow(df[i])] ELSE <<>>]

\* The three normalising statements of transform_courses on a frame.
NormalizeCourses(df) ==
    LET exc == CourseNormalizeExc(df)
    IN  [exc |-> exc,
         rows |-> IF exc = "none"
                  THEN [i \in 1..Len(df) |-> NormalizeCourseRow(df[i])] ELSE <<>>]

NormalizeFrame(entity, df) ==
    IF entity = "students" THEN NormalizeStudents(df) ELSE NormalizeCourses(df)

\* The calls made on their own: a validator on one record, a normalisation on
\* one frame.
PureInit ==
    /\ PipelineInit
    /\ \/ \E r \in StudentRecords : probe = ProbeOf("record", "students", << r >>)
       \/ \E r \in CourseRecords : probe = ProbeOf("record", "courses", << r >>)
       \/ \E f \in StudentFrames : probe = ProbeOf("frame", "students", f)
       \/ \E f \in CourseFrames : probe = ProbeOf("frame", "courses", f)

\* validate_student_data(row) / validate_course_data(row).
Validate ==
    /\ probe.op = "record"
    /\ probe' = [probe EXCEPT
                    !.op = "validated",
                    !.res = IF probe.entity = "students"
                            THEN << ValidateStudent(probe.df[1]) >>
                            ELSE << ValidateCourse(probe.df[1]) >>]
    /\ UNCHANGED pipeline

\* The normalisation of a transform on a frame.
Normalize ==
    /\ probe.op = "frame"
    /\ LET r == NormalizeFrame(probe.entity, probe.df)
       IN  probe' = [probe EXCEPT
                        !.op = IF r.exc = "none" THEN "normalized" ELSE "raised",
                        !.once = r.rows]
    /\ UNCHANGED pipeline

\* The same normalisation on the frame it returned.
Renormalize ==
    /\ probe.op = "normalized"
    /\ probe' = [probe EXCEPT
                    !.op = "renormalized",
                    !.twice = NormalizeFrame(probe.entity, probe.once)]
    /\ UNCHANGED pipeline

PureNext ==
    \/ Validate
    \/ Normalize
    \/ Renormalize

SpecPure == PureInit /\ [][PureNext]_vars

\* ------------------------------------------------------------------ claims
Has(ev) == \E i \in 1..Len(events) : events[i] = ev
Count(ev) == Cardinality({i \in 1..Len(events) : events[i] = ev})
\* run_etl has returned, or an exception has left it.
RunEnded == pc = "idle" /\ runs > 0
\* The transform step has just raised.
TransformRaised ==
    pc = "except" /\ Has("extracted") /\ ~Has("transformed") /\ ~Has("unknown_entity")
Table == IF entity_type = "students" THEN student ELSE course
TerminalStatus == {"success", "failed"}

\* The natural key after normalisation: the email lower-cased and trimmed,
\* the course code upper-cased and trimmed.
NormalizedKey(entity, row) ==
    IF entity = "students" THEN StrLowerStrip(row.email) ELSE StrUpperStrip(row.code)
NormalizeRow(entity, row) ==
    IF entity = "students" THEN NormalizeStudentRow(row) ELSE NormalizeCourseRow(row)

\* C1: the frame a transform accepts holds at most one record per normalised
\* natural key, and an accepted record comes from the first row of the input
\* that has its normalised key.
C1_OneRecordPerNormalizedKey ==
    pc = "load" =>
        /\ \A i, j \in 1..Len(df_transformed) :
              i # j => NormalizedKey(entity_type, df_transformed[i])
                         # NormalizedKey(entity_type, df_transformed[j])
        /\ \A i \in 1..Len(df_transformed) :
              \E j \in 1..Len(df_raw) :
                 /\ NormalizeRow(entity_type, df_raw[j]) = df_transformed[i]
                 /\ \A k \in 1..(j - 1) :
                       NormalizedKey(entity_type, df_raw[k])
                         # NormalizedKey(entity_type, df_raw[j])

\* The validation rules of each entity type, as the claim words them.
NonBlank(c) == c.t = "str" /\ StrStrip(c.s) # <<>>
InRange(c) == c.t = "num" /\ c.n \in {1, 2, 3, 4}
StudentRules(r) ==
    /\ NonBlank(r.name)
    /\ r.email.t = "str" /\ Contains(r.email.s, "@")
    /\ InRange(r.year)
    /\ r.department_id.t = "num"
CourseRules(r) == NonBlank(r.code) /\ NonBlank(r.name) /\ InRange(r.credits)
Rules(entity, r) == IF entity = "students" THEN StudentRules(r) ELSE CourseRules(r)

\* C2: every record handed to load_students or load_courses satisfies every
\* validation rule of its entity type, and so does every row of the store.
C2_OnlyValidRecordsReachLoad ==
    /\ pc = "load" =>
          \A i \in 1..Len(df_transformed) : Rules(entity_type, df_transformed[i])
    /\ \A r \in student : StudentRules(r)
    /\ \A r \in course : CourseRules(r)

\* A record with a malformed field, of the kinds the claim lists: a year or
\* credits out of range or not a number, a blank name or code.
NumberField(entity, r) == IF entity = "students" THEN r.year ELSE r.credits
Malformed(entity, r) ==
    \/ ~InRange(NumberField(entity, r)) /\ NumberField(entity, r).t \in {"num", "str"}
    \/ r.name.t = "str" /\ StrStrip(r.name.s) = <<>>
    \/ entity = "courses" /\ r.code.t = "str" /\ StrStrip(r.code.s) = <<>>
Accepted(entity, r) ==
    \E j \in 1..Len(df_transformed) : df_transformed[j] = NormalizeRow(entity, r)

\* C3: over a batch of well-formed records and records with a malformed
\* field, the transform does not raise, accepts every well-formed record and
\* rejects every malformed one.
C3_MalformedRecordOnlyRejected ==
    (/\ pc = "load" \/ TransformRaised
     /\ \A i \in 1..Len(df_raw) :
           Rules(entity_type, df_raw[i]) \/ Malformed(entity_type, df_raw[i]))
    => /\ ~TransformRaised
       /\ \A i \in 1..Len(df_raw) :
             Rules(entity_type, df_raw[i]) <=> Accepted(entity_type, df_raw[i])

\* Every record of the frame handed to load satisfies the validation rules.
ValidBatch == \A i \in 1..Len(df_transformed) : Rules(entity_type, df_transformed[i])

\* C4: a load of valid records that returned raised for no record whose key
\* was already in the store, counted none of them, left one row per key, and
\* a load of the frame the load before it went over inserted nothing and left
\* the store as it was.
C4_LoadIdempotent ==
    (pc = "success" /\ ValidBatch) =>
        /\ \A i \in 1..Len(df_transformed) :
              KeyOf(entity_type, df_transformed[i]) \in keys_at_load
                 => load_raised[i] = "none"
        /\ log_data.records_loaded
              <= Cardinality({i \in 1..Len(df_transformed) :
                                KeyOf(entity_type, df_transformed[i]) \notin keys_at_load})
        /\ \A r1, r2 \in Table :
              KeyOf(entity_type, r1) = KeyOf(entity_type, r2) => r1 = r2
        /\ reloaded => log_data.records_loaded = 0 /\ Keys(entity_type, Table) = keys_at_load

\* The insert of the row fails on its own: a constraint or a type of a
\* column that is not the key refuses it.
InsertFailsOnItsOwn(r) == ~IntegerColumnOk(r) \/ ~ForeignKeyOk(r)

\* C5: after a load of valid records that returned, each failed insert is in
\* the RunLog errors and every row of the batch that had a new key and no
\* failure of its own is in the store.
C5_BadRowSkippedRestCommitted ==
    (pc = "success" /\ ValidBatch) =>
        /\ \A i \in 1..Len(load_raised) :
              load_raised[i] # "none"
                 => \E j \in 1..Len(log_data.errors) : log_data.errors[j] = load_raised[i]
        /\ \A i \in 1..Len(df_transformed) :
              (/\ KeyOf(entity_type, df_transformed[i]) \notin keys_at_load
               /\ ~InsertFailsOnItsOwn(df_transformed[i]))
              => \E r \in Table : KeyOf(entity_type, r) = KeyOf(entity_type, df_transformed[i])

\* C6: once the try block of run_etl is left the status is success or failed,
\* never pending, and at the end of the run it is success exactly when
\* connect, extract, transform and load all completed.
C6_StatusNeverLeftPending ==
    /\ (pc \in {"close", "save"} \/ RunEnded) => log_data.status \in TerminalStatus
    /\ RunEnded =>
          (log_data.status = "success"
             <=> Has("connected") /\ Has("extracted") /\ Has("transformed") /\ Has("loaded"))

\* A run that ended failed because its transform raised.
C6_Witness ==
    /\ RunEnded
    /\ log_data.status = "failed"
    /\ Has("extracted") /\ ~Has("transformed") /\ ~Has("unknown_entity")
    /\ Has("saved")

\* C7: at the end of every run the connection is released and the RunLog has
\* been written exactly once, with the terminal status in it.
C7_CleanupRunsExactlyOnce ==
    RunEnded =>
        /\ conn # "open"
        /\ Count("saved") = 1
        /\ log_file = << log_data >>
        /\ log_data.status \in TerminalStatus

\* C8: a run whose source file is absent ends failed, with no transform and
\* no load, and the RunLog it writes has records_extracted = 0.
C8_AbsentSourceLogsZeroExtracted ==
    (RunEnded /\ source_absent) =>
        /\ log_data.status = "failed"
        /\ ~Has("transformed") /\ ~Has("loaded")
        /\ Has("saved") => log_file[1].records_extracted = 0

\* C9: at the end of every run each error that happened in it (a validation
\* reason of a rejected record, a failed insert, the fatal failure that ended
\* the run) is an entry of the RunLog errors.
C9_NoErrorDropped ==
    RunEnded =>
        \A i \in 1..Len(occurred) :
            \E j \in 1..Len(log_data.errors) : log_data.errors[j] = occurred[i]

\* C10, as stated: the unknown entity type is detected before the connection
\* is opened and before the source is read.
C10_RejectedBeforeAnyIO ==
    Has("unknown_entity") => ~Has("connected") /\ ~Has("extracted")

\* C10, amended: a run with an unknown entity type ends failed with nothing
\* transformed and nothing loaded; the unknown entity type is detected after
\* the connection was opened and the source was read.
C10_RejectedBeforeTransformAndLoad ==
    /\ Has("unknown_entity") =>
          Has("connected") /\ Has("extracted") /\ ~Has("transformed") /\ ~Has("loaded")
    /\ (RunEnded /\ entity_type \notin {"students", "courses"}) =>
          /\ log_data.status = "failed"
          /\ ~Has("transformed") /\ ~Has("loaded")
          /\ (Has("extracted") => Has("unknown_entity"))

\* A run with an unknown entity type that ended failed after its source was read.
C10_Witness ==
    /\ RunEnded
    /\ entity_type = "teachers"
    /\ Has("unknown_entity")
    /\ log_data.status = "failed"
    /\ log_data.records_extracted > 0

\* The record a validator was called on, what it returned, and whether a
\* reason is in the list it returned.
Validated == probe.op = "validated"
Record == probe.df[1]
Verdict == probe.res[1]
Reported(reason) == \E j \in 1..Len(Verdict.errors) : Verdict.errors[j] = reason

\* A year or credits value that breaks the 1-4 rule: a string that writes no
\* number, or anything else that is not one of 1, 2, 3, 4.
NumberRuleViolated(c) == IF c.t = "str" THEN ~IsNumeral(StrStrip(c.s)) ELSE ~InRange(c)

\* C11: a validator that returns says is_valid = false exactly when its
\* reason list is non-empty, and the list has the reason of every rule the
\* record violates: name, email, year and department_id of a student; code,
\* name and credits of a course.
C11_OneReasonPerViolatedRule ==
    (Validated /\ Verdict.exc = "none") =>
        /\ (Verdict.is_valid = FALSE) <=> (Verdict.errors # <<>>)
        /\ probe.entity = "students" =>
              /\ ~NonBlank(Record.name) => Reported(MissingName)
              /\ ~(Record.email.t = "str" /\ Contains(Record.email.s, "@"))
                    => Reported(InvalidEmail)
              /\ NumberRuleViolated(Record.year)
                    => Reported(InvalidYear) \/ Reported(YearNotNumber)
              /\ Record.department_id.t # "num" => Reported(MissingDept)
        /\ probe.entity = "courses" =>
              /\ ~NonBlank(Record.code) => Reported(MissingCode)
              /\ ~NonBlank(Record.name) => Reported(MissingCourseName)
              /\ NumberRuleViolated(Record.credits)
                    => Reported(InvalidCredits) \/ Reported(CreditsNotNumber)

\* C12: a validator raises on no record; an absent or null name, email or
\* code is reported as a reason, and so is an absent, null, empty or
\* non-numeric year or credits, the non-numeric one with the not-a-number
\* reason and not with the out-of-range reason.
C12_ValidatorsNeverRaise ==
    Validated =>
        LET number == NumberField(probe.entity, Record)
            notNumber == IF probe.entity = "students" THEN YearNotNumber ELSE CreditsNotNumber
            outOfRange == IF probe.entity = "students" THEN InvalidYear ELSE InvalidCredits
        IN  /\ Verdict.exc = "none"
            /\ Record.name.t \in {"none", "absent"} =>
                  Reported(IF probe.entity = "students" THEN MissingName ELSE MissingCourseName)
            /\ (probe.entity = "students" /\ Record.email.t \in {"none", "absent"})
                  => Reported(InvalidEmail)
            /\ (probe.entity = "courses" /\ Record.code.t \in {"none", "absent"})
                  => Reported(MissingCode)
            /\ number.t \in {"none", "absent"} => Reported(notNumber) \/ Reported(outOfRange)
            /\ (number.t = "str" /\ ~IsNumeral(StrStrip(number.s)))
                  => Reported(notNumber) /\ ~Reported(outOfRange)

\* C13: the normalisation of transform_students and of transform_courses,
\* applied to the frame it returned, raises nothing and returns that frame.
C13_NormalizationIdempotent ==
    probe.op = "renormalized" =>
        /\ probe.twice.exc = "none"
        /\ probe.twice.rows = probe.once

\* A frame normalised twice whose first normalisation filled a missing
\* email or changed the case or the white space of a string.
C13_Witness ==
    /\ probe.op = "renormalized"
    /\ probe.df # <<>>
    /\ probe.once # probe.df
    /\ \E i \in 1..Len(probe.df) :
          LET key == IF probe.entity = "students" THEN "email" ELSE "code"
          IN  /\ probe.once[i][key].t = "str"
              /\ probe.once[i][key] # probe.df[i][key]

\* The stages of run_etl in the order of the claim, the event that marks the
\* start of each and the event that marks its success.
Stages == << "connect", "extract", "transform", "load" >>
Done == << "connected", "extracted", "transformed", "loaded" >>
Pos(ev) == CHOOSE i \in 1..Len(events) : events[i] = ev
Before(a, b) == Has(b) => Has(a) /\ Pos(a) < Pos(b)

\* C14: in one invocation each stage starts at most once, a stage starts
\* only after the stage before it has succeeded, so the stages come in the
\* order connect, extract, transform, load; after a failed connect nothing
\* else is attempted and the run ends failed; no insert is executed before
\* the transform has returned.
C14_StagesInOrder ==
    /\ \A k \in 1..Len(Stages) : Count(Stages[k]) <= 1 /\ Count(Done[k]) <= 1
    /\ \A k \in 1..Len(Stages) : Before(Stages[k], Done[k])
    /\ \A k \in 2..Len(Stages) : Before(Done[k - 1], Stages[k])
    /\ (Has("connect") /\ ~Has("connected")) =>
          /\ ~Has("extract") /\ ~Has("transform") /\ ~Has("load")
          /\ load_raised = <<>> /\ db = db_at_start
          /\ pc \in {"except", "close", "save", "idle"}
          /\ RunEnded /\ ~escaped => log_data.status = "failed"
    /\ load_raised # <<>> => Before("transformed", "load")

\* A run that went through the four stages and executed inserts.
C14_Witness ==
    /\ RunEnded
    /\ \A k \in 1..Len(Stages) : Has(Stages[k]) /\ Has(Done[k])
    /\ load_raised # <<>>
    /\ log_data.status = "success"

\* The RunLog the invocation that just returned has written.
Written == RunEnded /\ Has("saved")

\* C15: every invocation of run_etl starts from the log of a new pipeline
\* (status pending, the three counters 0, no errors), and the RunLog it
\* writes holds no error but those that happened in it.
C15_EveryRunStartsFromFreshLog ==
    /\ pc = "connect" => log_data = InitialLog
    /\ Written =>
          \A j \in 1..Len(log_file[1].errors) :
              \E i \in 1..Len(occurred) : occurred[i] = log_file[1].errors[j]

\* run_etl is past its try block: the status is the one this run gave itself.
StatusSet == pc \in {"close", "save"} \/ RunEnded

\* C16: a run that ends failed leaves both tables as they were when it was
\* called; the tables change only by the commit that ends a load, the status
\* is success only after that commit, and a load that fails after its
\* inserts leaves its connection closed with nothing pending.
C16_FailedRunLeavesStoreUnchanged ==
    /\ (StatusSet /\ log_data.status = "failed") => db = db_at_start
    /\ (pc # "idle" /\ db # db_at_start) => Has("loaded")
    /\ (StatusSet /\ log_data.status = "success") => Has("loaded")
    /\ (Has("load") /\ ~Has("loaded")) =>
          /\ db = db_at_start
          /\ Has("closed") => session = NewSession

\* A run that ended failed after its load had executed an insert of a new row.
C16_Witness ==
    /\ RunEnded
    /\ log_data.status = "failed"
    /\ Has("load") /\ Has("closed")
    /\ \E i \in 1..Len(load_raised) :
          /\ load_raised[i] = "none"
          /\ KeyOf(entity_type, df_transformed[i]) \notin keys_at_load
    /\ db = db_at_start

\* C17: the counters of every RunLog written satisfy
\* 0 <= records_loaded <= records_transformed <= records_extracted.
C17_CountersOrdered ==
    Written =>
        /\ 0 <= log_file[1].records_loaded
        /\ log_file[1].records_loaded <= log_file[1].records_transformed
        /\ log_file[1].records_transformed <= log_file[1].records_extracted

=============================================================================
